---------------------------- MODULE Spec2Model ----------------------------
(***************************************************************************)
(* Model of the CML parameter-estimation engine (src/ui/optimizer_core.py): *)
(* the fitness evaluator, the genetic algorithm and the background          *)
(* OptimizationThread with its cooperative cancellation.                    *)
(*                                                                         *)
(* Number representation.  The program computes on floats; the model uses   *)
(* fixed point:                                                             *)
(*   - linear genes (initLRATIO, TKI_effect, p_Y) in hundredths;            *)
(*   - log-scale genes (p_XY, p_YX, K_Z, p_Z) by their log10 in hundredths  *)
(*     of a decade (the value is 10^(x/100));                               *)
(*   - log-ratios in quarter decades (Log10Q);                              *)
(*   - clinical values in millionths, doses in percent;                     *)
(*   - weights in hundredths, fitness in hundredths of a squared quarter    *)
(*     decade.                                                              *)
(* Python's random module is a deterministic stream once seeded: the model  *)
(* draws the seed from a bounded set and reads the stream by position.      *)
(***************************************************************************)
EXTENDS Integers, Sequences, FiniteSets, TLC

(***************************************************************************)
(* Bounds of the model.                                                     *)
(***************************************************************************)
MaxSeed == 3
MaxRestarts == 2
MaxGens == 3
MaxPop == 4

(***************************************************************************)
(* GENE_BOUNDS and the gene order of the dict (optimizer_core.py:20-28).    *)
(***************************************************************************)
GeneSeq == <<"initLRATIO", "TKI_effect", "p_XY", "p_YX", "p_Y", "K_Z", "p_Z">>

Genes == {GeneSeq[i] : i \in 1..Len(GeneSeq)}

LogGenes == {"p_XY", "p_YX", "K_Z", "p_Z"}

GENE_BOUNDS(gene) ==
    CASE gene = "initLRATIO" -> <<-200, 0>>
      [] gene = "TKI_effect" -> <<50, 300>>
      [] gene = "p_XY"       -> <<-1000, 0>>
      [] gene = "p_YX"       -> <<-1000, 0>>
      [] gene = "p_Y"        -> <<5, 1000>>
      [] gene = "K_Z"        -> <<100, 350>>
      [] gene = "p_Z"        -> <<130, 710>>

Lower(gene) == GENE_BOUNDS(gene)[1]

Upper(gene) == GENE_BOUNDS(gene)[2]

Min2(a, b) == IF a < b THEN a ELSE b

Max2(a, b) == IF a > b THEN a ELSE b

\* np.clip(x, lower, upper)
Clip(x, lower, upper) == Min2(Max2(x, lower), upper)

(***************************************************************************)
(* The random stream.  Rand(s, p) is the p-th draw of the stream seeded s,  *)
(* a number in 0..99 (hundredths of the unit interval).                     *)
(***************************************************************************)
Rand(s, p) == (((s + 3) * 7919 + p * 10007 + p * p * (s + 1)) % 1009) % 100

\* random.uniform(a, b) = a + (b - a) * random()
Uniform(a, b, u) == a + ((b - a) * u) \div 100

\* random.gauss(0, sigma): the draw u selects a multiple of sigma
GaussZ(u) ==
    CASE u < 3  -> -5
      [] u >= 3 /\ u < 12  -> -2
      [] u >= 12 /\ u < 30 -> -1
      [] u >= 30 /\ u < 70 -> 0
      [] u >= 70 /\ u < 88 -> 1
      [] u >= 88 /\ u < 97 -> 2
      [] u >= 97 -> 5

Gauss(sigma, u) == sigma * GaussZ(u)

(***************************************************************************)
(* create_initial_population (optimizer_core.py:472-504).                   *)
(***************************************************************************)
InitialGene(gene, u) ==
    IF gene \in LogGenes THEN Uniform(Lower(gene), Upper(gene), u)
    ELSE IF gene = "initLRATIO" THEN Uniform(-200, 0, u)
    ELSE IF gene = "TKI_effect" THEN Uniform(80, 250, u)
    ELSE IF gene = "p_Y" THEN Uniform(50, 500, u)
    ELSE Uniform(Lower(gene), Upper(gene), u)

\* the individual built from the seven draws at positions p+1 .. p+7
InitialIndividual(s, p) ==
    [gene \in Genes |->
        LET k == CHOOSE i \in 1..Len(GeneSeq) : GeneSeq[i] = gene
        IN InitialGene(gene, Rand(s, p + k))]

create_initial_population(size, s, p) ==
    [i \in 1..size |-> InitialIndividual(s, p + 7 * (i - 1))]

(***************************************************************************)
(* crossover (optimizer_core.py:532-566): one mixing coefficient per gene,  *)
(* 0.1..0.9 for log-scale genes (blended in log space), 0.3..0.7 otherwise, *)
(* both children clipped to the gene's bounds.                              *)
(***************************************************************************)
GeneIndex(gene) == CHOOSE i \in 1..Len(GeneSeq) : GeneSeq[i] = gene

CrossAlpha(gene, u) ==
    IF gene \in LogGenes THEN Uniform(10, 90, u) ELSE Uniform(30, 70, u)

Blend(alpha, a, b) == (alpha * a + (100 - alpha) * b) \div 100

crossover(parent1, parent2, s, p) ==
    LET alpha(gene) == CrossAlpha(gene, Rand(s, p + GeneIndex(gene)))
        child1 == [gene \in Genes |->
                     Clip(Blend(alpha(gene), parent1[gene], parent2[gene]),
                          Lower(gene), Upper(gene))]
        child2 == [gene \in Genes |->
                     Clip(Blend(alpha(gene), parent2[gene], parent1[gene]),
                          Lower(gene), Upper(gene))]
    IN <<child1, child2>>

(***************************************************************************)
(* mutate (optimizer_core.py:569-606): each gene mutates with probability   *)
(* mutation_rate = 0.25 by Gaussian noise, then is clipped to its bounds.   *)
(* Draw p+2k-1 decides whether gene k mutates, draw p+2k is its noise.      *)
(***************************************************************************)
MutationRate == 25

MutationSize(gene) ==
    IF gene \in LogGenes THEN 20
    ELSE IF gene = "initLRATIO" THEN 15
    ELSE IF gene = "TKI_effect" THEN ((Upper(gene) - Lower(gene)) * 5) \div 100
    ELSE ((Upper(gene) - Lower(gene)) * 10) \div 100

MutateGeneNoClip(gene, x, coin, u) ==
    IF coin < MutationRate THEN x + Gauss(MutationSize(gene), u) ELSE x

MutateGene(gene, x, coin, u) ==
    IF coin < MutationRate
    THEN Clip(x + Gauss(MutationSize(gene), u), Lower(gene), Upper(gene))
    ELSE x

mutate(individual, s, p) ==
    [gene \in Genes |->
        MutateGene(gene, individual[gene],
                   Rand(s, p + 2 * GeneIndex(gene) - 1),
                   Rand(s, p + 2 * GeneIndex(gene)))]

(***************************************************************************)
(* Response metric and fixed-point log10.                                   *)
(* Log10Q(num, den) is log10(num / den) in quarter decades, rounded down,   *)
(* for num > 0 and den > 0.                                                 *)
(***************************************************************************)
K_Y == 1000000

DETECTION_LIMIT == 100

EpsLog == -48

MantissaScale(den) == IF den > 100000 THEN 1000 ELSE 1

MantissaQ(num, den) ==
    LET sc == MantissaScale(den)
        n  == (num \div sc) * 1000
        d  == den \div sc
    IN IF n >= 5623 * d THEN 3
       ELSE IF n >= 3162 * d THEN 2
       ELSE IF n >= 1778 * d THEN 1
       ELSE 0

RECURSIVE Log10Q(_, _)
Log10Q(num, den) ==
    IF num >= 10 * den THEN 4 + Log10Q(num, 10 * den)
    ELSE IF num < den THEN Log10Q(num * 10, den) - 4
    ELSE MantissaQ(num, den)

\* calculate_lratio (optimizer_core.py:161-185)
calculate_lratio(Y) ==
    LET denom == Y + 2 * (K_Y - Y)
    IN IF denom <= 0 \/ Y <= 0 THEN EpsLog
       ELSE IF Y >= denom THEN 0
       ELSE Max2(Log10Q(Y, denom), EpsLog)

(***************************************************************************)
(* simulate_model_with_variable_dosing (optimizer_core.py:118-158).         *)
(* The ODE solver is external: `ode` is what odeint does on this call,      *)
(*   ode.raises  - odeint raises;                                           *)
(*   ode.rows    - otherwise one row per time point, row.y the Y            *)
(*                 compartment and row.fin "ok", "nan" or "inf" (some        *)
(*                 component of the row is NaN / infinite).                  *)
(* The result is [raised, rows, time_points]; raised means the call itself  *)
(* raised (get_initial_conditions runs outside the try block).              *)
(***************************************************************************)
\* a variant that leaves the list in the order given
SortByTimeKeepsOrder(pairs) == pairs

\* sorted(time_dose_pairs, key=lambda x: x[0]): stable, ascending in time;
\* a list already in order is returned as it is, otherwise the pair at
\* position k goes to the place given by the number of pairs that sort
\* before it
SortByTime(pairs) ==
    LET n == Len(pairs)
        Before(j, k) == \/ pairs[j][1] < pairs[k][1]
                        \/ pairs[j][1] = pairs[k][1] /\ j < k
        Place(k) == Cardinality({j \in 1..n : Before(j, k)}) + 1
    IN IF \A i \in 1..(n - 1) : pairs[i][1] <= pairs[i + 1][1]
       THEN pairs
       ELSE [i \in 1..n |-> pairs[CHOOSE k \in 1..n : Place(k) = i]]

NanRow == [y |-> 0, fin |-> "nan"]

InitialConditionGenes == {"initLRATIO", "p_XY", "p_YX"}

simulate_model_with_variable_dosing(params, time_dose_pairs, ode) ==
    LET sorted == SortByTime(time_dose_pairs)
        time_points == [i \in 1..Len(sorted) |-> sorted[i][1]]
    IN IF ~(InitialConditionGenes \subseteq DOMAIN params)
       THEN [raised |-> TRUE, rows |-> <<>>, time_points |-> time_points]
       ELSE IF ode.raises
       THEN [raised |-> FALSE,
             rows |-> [i \in 1..Len(time_points) |-> NanRow],
             time_points |-> time_points]
       ELSE [raised |-> FALSE, rows |-> ode.rows, time_points |-> time_points]

(***************************************************************************)
(* calculate_fitness (optimizer_core.py:275-398).                           *)
(* A clinical point is [t, val, dose]: val.kind is "str" (val.text the      *)
(* string), "num" (val.v the value in millionths) or "none"; dose is in     *)
(* percent.  The score is in hundredths of a squared quarter decade.        *)
(***************************************************************************)
Sentinel == -1000000000

IsND(val) == val.kind = "str" /\ val.text \in {"ND", "nd", "Nd", "nD"}

\* float(clinical_val) succeeds
IsFloat(val) == val.kind = "num"

\* a variant with the full-dose and the post-cessation weights exchanged
BaseWeightExchanged(dose) ==
    IF dose = 100 THEN 250
    ELSE IF dose = 50 THEN 150
    ELSE IF dose = 25 THEN 130
    ELSE IF dose = 0 THEN 200
    ELSE 100

\* lines 325-335
BaseWeight(dose) ==
    IF dose = 100 THEN 200
    ELSE IF dose = 50 THEN 150
    ELSE IF dose = 25 THEN 130
    ELSE IF dose = 0 THEN 250
    ELSE 100

\* zip(time_points_sim, Y_sim) as a dict: the last entry of a month wins
DictKeys(sim) ==
    {sim.time_points[j] : j \in 1..Min2(Len(sim.time_points), Len(sim.rows))}

DictLratio(sim, t) ==
    LET n == Min2(Len(sim.time_points), Len(sim.rows))
        j == CHOOSE k \in 1..n :
                /\ sim.time_points[k] = t
                /\ \A m \in (k + 1)..n : sim.time_points[m] # t
    IN calculate_lratio(sim.rows[j].y)

Sq(x) == x * x

\* np.log10(max(detection_limit, 1e-12))
TargetLratio(detection_limit) ==
    IF detection_limit <= 0 THEN EpsLog ELSE Log10Q(detection_limit, 1000000)

\* a variant that charges the squared gap for every ND point, also when the
\* simulation is not above the detection limit
PointStepNDAlwaysCharged(acc, sim, point, detection_limit) ==
    IF point.t \notin DictKeys(sim) THEN acc
    ELSE
      LET lratio_sim  == DictLratio(sim, point.t)
          base_weight == BaseWeight(point.dose)
      IN IF IsND(point.val)
         THEN LET target_lratio == TargetLratio(detection_limit)
              IN [total_error |-> acc.total_error
                       + Sq(lratio_sim - target_lratio) * (base_weight * 3),
                  weights_sum |-> acc.weights_sum + base_weight * 3,
                  measured_points |-> acc.measured_points + 1]
         ELSE IF ~IsFloat(point.val) THEN acc
         ELSE IF point.val.v <= 0 \/ point.val.v > 100000000 THEN acc
         ELSE
           LET clinical_lratio == Log10Q(point.val.v, 1000000)
               final_weight == IF point.val.v < 10000
                               THEN (base_weight * 3) \div 2
                               ELSE base_weight
           IN [total_error |-> acc.total_error
                     + Sq(lratio_sim - clinical_lratio) * final_weight,
               weights_sum |-> acc.weights_sum + final_weight,
               measured_points |-> acc.measured_points + 1]

\* one pass of the loop body over a clinical point
PointStep(acc, sim, point, detection_limit) ==
    IF point.t \notin DictKeys(sim) THEN acc
    ELSE
      LET lratio_sim  == DictLratio(sim, point.t)
          base_weight == BaseWeight(point.dose)
      IN IF IsND(point.val)
         THEN LET target_lratio == TargetLratio(detection_limit)
              IN IF lratio_sim > target_lratio
                 THEN [total_error |-> acc.total_error
                            + Sq(lratio_sim - target_lratio) * (base_weight * 3),
                       weights_sum |-> acc.weights_sum + base_weight * 3,
                       measured_points |-> acc.measured_points + 1]
                 ELSE [total_error |-> acc.total_error,
                       weights_sum |-> acc.weights_sum + base_weight \div 10,
                       measured_points |-> acc.measured_points + 1]
         ELSE IF ~IsFloat(point.val) THEN acc
         ELSE IF point.val.v <= 0 \/ point.val.v > 100000000 THEN acc
         ELSE
           LET clinical_lratio == Log10Q(point.val.v, 1000000)
               final_weight == IF point.val.v < 10000
                               THEN (base_weight * 3) \div 2
                               ELSE base_weight
           IN [total_error |-> acc.total_error
                     + Sq(lratio_sim - clinical_lratio) * final_weight,
               weights_sum |-> acc.weights_sum + final_weight,
               measured_points |-> acc.measured_points + 1]

RECURSIVE Accumulate(_, _, _)
Accumulate(sim, data, detection_limit) ==
    IF data = <<>>
    THEN [total_error |-> 0, weights_sum |-> 0, measured_points |-> 0]
    ELSE PointStep(Accumulate(sim, SubSeq(data, 1, Len(data) - 1), detection_limit),
                   sim, data[Len(data)], detection_limit)

\* the validity test with the physical-range test of line 306 left out
SolutionNotFinite(sim) ==
    \E i \in 1..Len(sim.rows) : sim.rows[i].fin # "ok"

\* lines 300 (NaN / Inf anywhere) and 306 (Y negative or above 100 K_Y)
SolutionInvalid(sim) ==
    \/ \E i \in 1..Len(sim.rows) : sim.rows[i].fin # "ok"
    \/ \E i \in 1..Len(sim.rows) : sim.rows[i].y < 0 \/ sim.rows[i].y > K_Y * 100

NormalizedError(acc) ==
    LET normalized_error == (acc.total_error * 100) \div acc.weights_sum
    IN IF acc.measured_points < 3
       THEN (normalized_error * 5) \div acc.measured_points
       ELSE normalized_error

TimeDosePairs(data) == [i \in 1..Len(data) |-> <<data[i].t, data[i].dose>>]

\* lines 296-394, the body of the try block: [raised, value]
FitnessBody(params, data, detection_limit, ode) ==
    LET sim == simulate_model_with_variable_dosing(params, TimeDosePairs(data), ode)
    IN IF sim.raised THEN [raised |-> TRUE, value |-> 0]
       ELSE IF SolutionInvalid(sim) THEN [raised |-> FALSE, value |-> Sentinel]
       ELSE LET acc == Accumulate(sim, data, detection_limit)
            IN IF acc.measured_points = 0 \/ acc.weights_sum = 0
               THEN [raised |-> FALSE, value |-> Sentinel]
               ELSE [raised |-> FALSE, value |-> 0 - NormalizedError(acc)]

\* lines 295 and 396-398: any exception of the body becomes the sentinel
FitnessCall(params, data, detection_limit, ode) ==
    LET body == FitnessBody(params, data, detection_limit, ode)
    IN IF body.raised THEN [raised |-> FALSE, value |-> Sentinel] ELSE body

calculate_fitness(params, data, detection_limit, ode) ==
    FitnessCall(params, data, detection_limit, ode).value

\* total_error, weights_sum and measured_points when line 384 is reached
\* (all zero when the call leaves before the loop)
FitnessLocals(params, data, detection_limit, ode) ==
    LET sim == simulate_model_with_variable_dosing(params, TimeDosePairs(data), ode)
    IN IF sim.raised \/ SolutionInvalid(sim)
       THEN [total_error |-> 0, weights_sum |-> 0, measured_points |-> 0]
       ELSE Accumulate(sim, data, detection_limit)

(***************************************************************************)
(* calculate_fitness_simple (optimizer_core.py:401-467).  `errors` is kept  *)
(* as its sum and its length; an error is a squared quarter-decade gap      *)
(* times the weight in hundredths.                                          *)
(***************************************************************************)
\* line 440
SimpleWeight(dose) == IF dose = 0 THEN 200 ELSE 100

\* np.log10(detection_limit), line 443; the limit is positive at every call
TargetLratioSimple(detection_limit) == Log10Q(detection_limit, 1000000)

\* one pass of the loop body (lines 429-458)
SimplePointStep(errors, sim, point, detection_limit) ==
    IF point.t \notin DictKeys(sim) THEN errors
    ELSE
      LET lratio_sim == DictLratio(sim, point.t)
          weight     == SimpleWeight(point.dose)
      IN IF IsND(point.val)
         THEN LET target_lratio == TargetLratioSimple(detection_limit)
              IN IF lratio_sim > target_lratio
                 THEN [sum |-> errors.sum
                                 + Sq(lratio_sim - target_lratio) * weight * 2,
                       len |-> errors.len + 1]
                 ELSE errors
         ELSE IF ~IsFloat(point.val) THEN errors
         ELSE IF point.val.v <= 0 \/ point.val.v > 100000000 THEN errors
         ELSE [sum |-> errors.sum
                         + Sq(lratio_sim - Log10Q(point.val.v, 1000000)) * weight,
               len |-> errors.len + 1]

RECURSIVE SimpleAccumulate(_, _, _)
SimpleAccumulate(sim, data, detection_limit) ==
    IF data = <<>> THEN [sum |-> 0, len |-> 0]
    ELSE SimplePointStep(
            SimpleAccumulate(sim, SubSeq(data, 1, Len(data) - 1), detection_limit),
            sim, data[Len(data)], detection_limit)

\* lines 413-464, the body of the try block: [raised, value, len(errors)]
FitnessSimpleBody(params, data, detection_limit, ode) ==
    LET sim == simulate_model_with_variable_dosing(params, TimeDosePairs(data), ode)
    IN IF sim.raised THEN [raised |-> TRUE, value |-> 0, counted |-> 0]
       ELSE IF SolutionInvalid(sim)
       THEN [raised |-> FALSE, value |-> Sentinel, counted |-> 0]
       ELSE LET errors == SimpleAccumulate(sim, data, detection_limit)
            IN IF errors.len = 0
               THEN [raised |-> FALSE, value |-> Sentinel, counted |-> 0]
               ELSE [raised |-> FALSE, value |-> 0 - (errors.sum \div errors.len),
                     counted |-> errors.len]

\* lines 412 and 466-467
FitnessSimpleCall(params, data, detection_limit, ode) ==
    LET body == FitnessSimpleBody(params, data, detection_limit, ode)
    IN IF body.raised
       THEN [raised |-> FALSE, value |-> Sentinel, counted |-> 0]
       ELSE body

calculate_fitness_simple(params, data, detection_limit, ode) ==
    FitnessSimpleCall(params, data, detection_limit, ode).value

(***************************************************************************)
(* The ODE solver (scipy's odeint, called at optimizer_core.py:153) is      *)
(* external and deterministic.  Inside a GA run the model stands it in by   *)
(* a fixed function of the parameters and the sorted schedule: the          *)
(* log-ratio starts at initLRATIO and moves each month by growth minus      *)
(* dose-scaled kill; some parameter regions make the solver raise, return   *)
(* NaN or undershoot below zero.                                            *)
(***************************************************************************)
\* Y for a log-ratio given in hundredths of a decade (half-decade steps)
YOfLog(lr) ==
    LET c  == Clip(lr, -600, 0)
        d  == c \div 100
        m  == IF c % 100 >= 50 THEN 3 ELSE 1
        p10 == [k \in 0..6 |-> CASE k = 0 -> 1 [] k = 1 -> 10 [] k = 2 -> 100
                                 [] k = 3 -> 1000 [] k = 4 -> 10000
                                 [] k = 5 -> 100000 [] k = 6 -> 1000000]
    IN IF c = 0 THEN 1000000 ELSE m * p10[6 + d]

MonthlySlope(params, dose) ==
    (params["p_Y"] - (dose * params["TKI_effect"]) \div 100) \div 4

RECURSIVE LogAt(_, _, _)
LogAt(params, sorted, j) ==
    IF j = 1 THEN params["initLRATIO"]
    ELSE Clip(LogAt(params, sorted, j - 1)
                + MonthlySlope(params, sorted[j - 1][2])
                    * (sorted[j][1] - sorted[j - 1][1]),
              -600, 0)

odeint(params, sorted) ==
    IF params["p_XY"] < -900
    THEN [raises |-> TRUE, rows |-> <<>>]
    ELSE [raises |-> FALSE,
          rows |-> [j \in 1..Len(sorted) |->
                      IF params["p_YX"] < -900 THEN NanRow
                      ELSE IF params["K_Z"] < 110 THEN [y |-> -1, fin |-> "ok"]
                      ELSE [y |-> YOfLog(LogAt(params, sorted, j)), fin |-> "ok"]]]

\* calculate_fitness(ind, clinical_data) as the GA and the controller call it
Fitness(ind, data) ==
    calculate_fitness(ind, data, DETECTION_LIMIT,
                      odeint(ind, SortByTime(TimeDosePairs(data))))

(***************************************************************************)
(* selection (optimizer_core.py:507-529): len(population) tournaments of    *)
(* tournament_size = 3 distinct contestants; the first contestant of        *)
(* highest fitness wins and is copied.  random.sample raises ValueError     *)
(* when the population is smaller than the tournament.                      *)
(***************************************************************************)
TournamentSize == 3

SelectionRaises(population) == Len(population) < TournamentSize

\* the k-th (1-based) index of 1..n not in the set taken
RECURSIVE KthFree(_, _, _, _)
KthFree(n, taken, k, from) ==
    IF from \in taken THEN KthFree(n, taken, k, from + 1)
    ELSE IF k = 1 THEN from
    ELSE KthFree(n, taken, k - 1, from + 1)

\* random.sample(range(n), 3)
Sample3(n, s, p) ==
    LET i1 == KthFree(n, {}, 1 + (Rand(s, p + 1) % n), 1)
        i2 == KthFree(n, {i1}, 1 + (Rand(s, p + 2) % (n - 1)), 1)
        i3 == KthFree(n, {i1, i2}, 1 + (Rand(s, p + 3) % (n - 2)), 1)
    IN <<i1, i2, i3>>

\* max(contestants, key=lambda i: fitnesses[i]): the first maximal one
FirstMaxOf(contestants, fitnesses) ==
    LET k == CHOOSE k \in 1..Len(contestants) :
               /\ \A m \in 1..Len(contestants) :
                     fitnesses[contestants[m]] <= fitnesses[contestants[k]]
               /\ \A m \in 1..(k - 1) :
                     fitnesses[contestants[m]] < fitnesses[contestants[k]]
    IN contestants[k]

selection(population, fitnesses, s, p) ==
    [k \in 1..Len(population) |->
        population[FirstMaxOf(Sample3(Len(population), s, p + 3 * (k - 1)),
                              fitnesses)]]

(***************************************************************************)
(* One generation of genetic_algorithm (optimizer_core.py:641-671).         *)
(***************************************************************************)
\* int(np.argmax(fitnesses)): the first index of the maximum
ArgMax(fitnesses) ==
    CHOOSE i \in 1..Len(fitnesses) :
        /\ \A m \in 1..Len(fitnesses) : fitnesses[m] <= fitnesses[i]
        /\ \A m \in 1..(i - 1) : fitnesses[m] < fitnesses[i]

\* lines 658-663: consecutive pairs, the last parent of an odd pool pairs
\* with selected[0]; every pair yields two mutated children
Reproduce(selected, s, p) ==
    LET n     == Len(selected)
        pairs == (n + 1) \div 2
        kids(j) ==
            LET p1 == selected[2 * j - 1]
                p2 == IF 2 * j <= n THEN selected[2 * j] ELSE selected[1]
                q  == p + 35 * (j - 1)
                c  == crossover(p1, p2, s, q)
            IN <<mutate(c[1], s, q + 7), mutate(c[2], s, q + 21)>>
    IN [i \in 1..(2 * pairs) |-> kids((i + 1) \div 2)[2 - (i % 2)]]

\* lines 666-669
ElitismNone(new_population, best_individual, history) == new_population

ElitismCurrentTwice(new_population, best_individual, history) ==
    IF Len(new_population) >= 2
    THEN [new_population EXCEPT ![1] = best_individual,
                                ![2] = history[Len(history)].ind]
    ELSE new_population

Elitism(new_population, best_individual, history) ==
    IF Len(new_population) >= 2
    THEN IF Len(history) > 1
         THEN [new_population EXCEPT ![1] = best_individual,
                                     ![2] = history[Len(history) - 1].ind]
         ELSE [new_population EXCEPT ![1] = best_individual]
    ELSE new_population

\* draws consumed by one generation on a population of n
GenerationDraws(n) == 3 * n + 35 * ((n + 1) \div 2)

(***************************************************************************)
(* Clinical data sets a run is started on (month, value, dose).             *)
(***************************************************************************)
Num(v) == [kind |-> "num", text |-> "", v |-> v]

Str(text) == [kind |-> "str", text |-> text, v |-> 0]

Point(t, val, dose) == [t |-> t, val |-> val, dose |-> dose]

ClinicalSets ==
    { <<Point(0, Num(280000), 100), Point(3, Num(125000), 50)>>,
      <<Point(0, Num(1000000), 100), Point(6, Str("ND"), 50),
        Point(12, Num(50), 0)>>,
      <<Point(0, Num(0), 100), Point(3, Num(200000000), 50)>> }

PopSizes == 2..MaxPop

(***************************************************************************)
(* OptimizationThread (optimizer_core.py:678-790) running genetic_algorithm *)
(* (optimizer_core.py:609-673), and the host calling stop().                *)
(*                                                                         *)
(* State: the constructor's fields (restarts, pop_size, generations,        *)
(* clinical_data, is_running, results, best_solution, best_fitness,         *)
(* best_history, here best_run_history), the locals of run()                *)
(* (r, steps_done) and of genetic_algorithm (gen, population,               *)
(* best_history), the random stream (seed, rngPos), the signals emitted so  *)
(* far (emitted) and the worker's position pc:                              *)
(*   "restart" - at the head of `for r in range(self.restarts)`  (739)      *)
(*   "gen"     - at the head of `for gen in range(generations)`  (636)      *)
(*   "body"    - after the stop check of a generation            (641)      *)
(*   "record"  - genetic_algorithm has returned                  (766)      *)
(*   "append"  - the check of line 766 passed                    (768)      *)
(*   "final"   - after the restart loop                          (772)      *)
(*   "emit"    - the check of line 772 passed                    (774)      *)
(*   "done"    - run() has returned                                         *)
(***************************************************************************)
VARIABLES seed, rngPos, restarts, pop_size, generations, clinical_data,
          is_running, pc, r, gen, population, best_history, steps_done,
          results, best_solution, best_fitness, best_run_history, emitted,
          call

vars == <<seed, rngPos, restarts, pop_size, generations, clinical_data,
          is_running, pc, r, gen, population, best_history, steps_done,
          results, best_solution, best_fitness, best_run_history, emitted,
          call>>

config == <<seed, restarts, pop_size, generations, clinical_data>>

None == <<>>

NoCall == [fn |-> "none"]

Signal(sig, val, rr, g) == [sig |-> sig, val |-> val, r |-> rr, gen |-> g]

\* __init__ (optimizer_core.py:702-723)
Init ==
    /\ seed \in 0..MaxSeed
    /\ rngPos = 0
    /\ restarts \in 1..MaxRestarts
    /\ pop_size \in PopSizes
    /\ generations \in 1..MaxGens
    /\ clinical_data \in ClinicalSets
    /\ is_running = TRUE
    /\ pc = "restart"
    /\ r = 0
    /\ gen = 0
    /\ population = <<>>
    /\ best_history = <<>>
    /\ steps_done = 0
    /\ results = <<>>
    /\ best_solution = None
    /\ best_fitness = None
    /\ best_run_history = None
    /\ emitted = <<>>
    /\ call = NoCall

\* stop (optimizer_core.py:788-790), called by the host at any moment
Stop ==
    /\ is_running
    /\ pc # "done"
    /\ is_running' = FALSE
    /\ UNCHANGED <<call, config, rngPos, pc, r, gen, population, best_history,
                   steps_done, results, best_solution, best_fitness,
                   best_run_history, emitted>>

\* lines 739-741 and 633-634: the restart loop's head; a restart that starts
\* enters genetic_algorithm, which builds its population
RestartHead ==
    /\ pc = "restart"
    /\ IF r < restarts /\ is_running
       THEN /\ population' = create_initial_population(pop_size, seed, rngPos)
            /\ rngPos' = rngPos + 7 * pop_size
            /\ best_history' = <<>>
            /\ gen' = 0
            /\ pc' = "gen"
       ELSE /\ pc' = "final"
            /\ UNCHANGED <<population, rngPos, best_history, gen>>
    /\ UNCHANGED <<call, config, is_running, r, steps_done, results, best_solution,
                   best_fitness, best_run_history, emitted>>

\* lines 636-639 and 673: the generation loop's head.  Leaving the loop
\* returns best_history[-1], which raises IndexError on an empty history;
\* run() turns any exception into the error signal (785-786).
GenHead ==
    /\ pc = "gen"
    /\ IF gen < generations /\ is_running
       THEN /\ pc' = "body"
            /\ UNCHANGED emitted
       ELSE IF best_history = <<>>
       THEN /\ pc' = "done"
            /\ emitted' = Append(emitted, Signal("error", 0, r, gen))
       ELSE /\ pc' = "record"
            /\ UNCHANGED emitted
    /\ UNCHANGED <<call, config, rngPos, is_running, r, gen, population,
                   best_history, steps_done, results, best_solution,
                   best_fitness, best_run_history>>

\* progress_cb (optimizer_core.py:744-754): the signals of one generation
ProgressVal(done, total_steps) == (done * 100) \div total_steps

StatusDue(g, gens_total) ==
    g % Max2(1, gens_total \div 10) = 0 \/ g = gens_total - 1

progress_cb_PerRestart(log, g, gens_total, done, total_steps, rr) ==
    LET withProgress ==
            Append(log, Signal("progress", ProgressVal(g + 1, gens_total), rr, g))
    IN IF StatusDue(g, gens_total)
       THEN Append(withProgress, Signal("status", 0, rr, g))
       ELSE withProgress

progress_cb(log, g, gens_total, done, total_steps, rr) ==
    LET withProgress ==
            Append(log, Signal("progress", ProgressVal(done, total_steps), rr, g))
    IN IF StatusDue(g, gens_total)
       THEN Append(withProgress, Signal("status", 0, rr, g))
       ELSE withProgress

\* a variant that swallows the tournament's exception and goes on
GenBodyRaiseSwallowed ==
    /\ pc = "body"
    /\ LET log == progress_cb(emitted, gen, generations, steps_done + 1,
                              restarts * generations, r)
       IN /\ steps_done' = steps_done + 1
          /\ emitted' = IF SelectionRaises(population)
                        THEN Append(log, Signal("error", 0, r, gen))
                        ELSE log
          /\ best_history' =
                Append(best_history,
                       [ind |-> population[1],
                        fit |-> Fitness(population[1], clinical_data)])
          /\ gen' = gen + 1
          /\ pc' = "gen"
    /\ UNCHANGED <<call, config, rngPos, is_running, r, population, results,
                   best_solution, best_fitness, best_run_history>>

\* lines 641-671: evaluate, record the best, report, select, reproduce,
\* apply elitism
GenBody ==
    /\ pc = "body"
    /\ LET fitnesses == [i \in 1..Len(population) |->
                            Fitness(population[i], clinical_data)]
           best_idx        == ArgMax(fitnesses)
           best_individual == population[best_idx]
           history == Append(best_history,
                             [ind |-> best_individual, fit |-> fitnesses[best_idx]])
           log == progress_cb(emitted, gen, generations, steps_done + 1,
                              restarts * generations, r)
       IN /\ best_history' = history
          /\ steps_done' = steps_done + 1
          /\ IF SelectionRaises(population)
             THEN /\ emitted' = Append(log, Signal("error", 0, r, gen))
                  /\ pc' = "done"
                  /\ UNCHANGED <<population, rngPos, gen>>
             ELSE /\ emitted' = log
                  /\ population' =
                        Elitism(Reproduce(selection(population, fitnesses,
                                                    seed, rngPos),
                                          seed, rngPos + 3 * Len(population)),
                                best_individual, history)
                  /\ rngPos' = rngPos + GenerationDraws(Len(population))
                  /\ gen' = gen + 1
                  /\ pc' = "gen"
    /\ UNCHANGED <<call, config, is_running, r, results, best_solution,
                   best_fitness, best_run_history>>

\* line 673: the individual genetic_algorithm returns
GaReturnFirst(history) == history[1].ind

GaReturn(history) == history[Len(history)].ind

RecordUnchecked ==
    /\ pc = "record"
    /\ pc' = "append"
    /\ UNCHANGED <<call, config, rngPos, is_running, r, gen, population,
                   best_history, steps_done, results, best_solution,
                   best_fitness, best_run_history, emitted>>

\* line 766: the restart's result is kept only if the flag is still set
Record ==
    /\ pc = "record"
    /\ IF is_running
       THEN /\ pc' = "append"
            /\ UNCHANGED r
       ELSE /\ pc' = "restart"
            /\ r' = r + 1
    /\ UNCHANGED <<call, config, rngPos, is_running, gen, population,
                   best_history, steps_done, results, best_solution,
                   best_fitness, best_run_history, emitted>>

RecordEmitsEach ==
    /\ pc = "append"
    /\ LET best == GaReturn(best_history)
           fit  == Fitness(best, clinical_data)
       IN /\ results' = Append(results,
                               [best |-> best, history |-> best_history,
                                fit |-> fit])
          /\ emitted' = Append(emitted, Signal("finished", fit, -1, -1))
    /\ r' = r + 1
    /\ pc' = "restart"
    /\ UNCHANGED <<call, config, rngPos, is_running, gen, population, best_history,
                   steps_done, best_solution, best_fitness, best_run_history>>

\* lines 767-769: recompute the fitness of the returned individual and append
\* (best, history, fit); stop() may run between the check of line 766 and
\* this step
RecordAppend ==
    /\ pc = "append"
    /\ LET best == GaReturn(best_history)
       IN results' = Append(results,
                            [best |-> best, history |-> best_history,
                             fit |-> Fitness(best, clinical_data)])
    /\ r' = r + 1
    /\ pc' = "restart"
    /\ UNCHANGED <<call, config, rngPos, is_running, gen, population, best_history,
                   steps_done, best_solution, best_fitness, best_run_history,
                   emitted>>

\* sorted(self.results, key=lambda x: x[2], reverse=True): stable
RECURSIVE InsertDesc(_, _)
InsertDesc(sorted, x) ==
    IF sorted = <<>> THEN <<x>>
    ELSE IF sorted[Len(sorted)].fit >= x.fit THEN Append(sorted, x)
    ELSE Append(InsertDesc(SubSeq(sorted, 1, Len(sorted) - 1), x),
                sorted[Len(sorted)])

SortNone(rs) == rs

RECURSIVE SortDesc(_)
SortDesc(rs) ==
    IF rs = <<>> THEN <<>>
    ELSE InsertDesc(SortDesc(SubSeq(rs, 1, Len(rs) - 1)), rs[Len(rs)])

\* a variant that goes back to the restart loop when the run was cancelled
FinalRetries ==
    /\ pc = "final"
    /\ IF is_running /\ results # <<>>
       THEN /\ pc' = "emit"
            /\ UNCHANGED emitted
       ELSE IF ~is_running
       THEN /\ pc' = "restart"
            /\ UNCHANGED emitted
       ELSE /\ pc' = "done"
            /\ emitted' = Append(emitted, Signal("error", 0, -1, -1))
    /\ UNCHANGED <<call, config, rngPos, is_running, r, gen, population,
                   best_history, steps_done, results, best_solution,
                   best_fitness, best_run_history>>

\* lines 771-772 and 779-783: the check after the restart loop
Final ==
    /\ pc = "final"
    /\ IF is_running /\ results # <<>>
       THEN /\ pc' = "emit"
            /\ UNCHANGED emitted
       ELSE IF ~is_running
       THEN /\ pc' = "done"
            /\ UNCHANGED emitted
       ELSE /\ pc' = "done"
            /\ emitted' = Append(emitted, Signal("error", 0, -1, -1))
    /\ UNCHANGED <<call, config, rngPos, is_running, r, gen, population,
                   best_history, steps_done, results, best_solution,
                   best_fitness, best_run_history>>

\* lines 773-778: rank the results and emit progress 100 and the success
\* payload; stop() may run between the check of line 772 and this step
FinalEmit ==
    /\ pc = "emit"
    /\ LET ranked == SortDesc(results)
       IN /\ results' = ranked
          /\ best_solution' = ranked[1].best
          /\ best_run_history' = ranked[1].history
          /\ best_fitness' = ranked[1].fit
          /\ emitted' = emitted \o <<Signal("progress", 100, -1, -1),
                                     Signal("finished", ranked[1].fit, -1, -1)>>
    /\ pc' = "done"
    /\ UNCHANGED <<call, config, rngPos, is_running, r, gen, population,
                   best_history, steps_done>>

Next ==
    \/ Stop
    \/ RestartHead
    \/ GenHead
    \/ GenBody
    \/ Record
    \/ RecordAppend
    \/ Final
    \/ FinalEmit

Spec == Init /\ [][Next]_vars

\* The worker thread.  QThread.start() runs run() on a thread of its own,
\* which the operating system keeps scheduling, so run() keeps advancing
\* until it returns; nothing obliges the host to call stop().  Every step of
\* run() moves pc and stop() never does, so the steps of the worker are
\* exactly the steps that change pc, possible as long as pc is not "done".
PcValues ==
    {"restart", "gen", "body", "record", "append", "final", "emit", "done"}

WorkerAdvances == pc # "done" /\ pc' \in PcValues /\ pc' # pc

SpecLive == Init /\ [][Next]_vars /\ WF_pc(WorkerAdvances)

(***************************************************************************)
(* calculate_fitness called on its own: the parameters, the clinical data   *)
(* and what the solver does are drawn from bounded sets, no optimization    *)
(* thread is running.                                                       *)
(***************************************************************************)
MaxPoints == 2

FullParams == [gene \in Genes |-> Lower(gene)]

ParamSets ==
    {FullParams, [gene \in Genes \ {"initLRATIO"} |-> Lower(gene)]}

FitPoints ==
    { Point(0, Num(280000), 100),
      Point(3, Num(50), 25),
      Point(3, Str("ND"), 50),
      Point(6, Str("nd"), 0),
      Point(6, Num(0), 100),
      Point(0, Num(200000000), 75),
      Point(3, Str("abc"), 100),
      Point(0, [kind |-> "none", text |-> "", v |-> 0], 0),
      Point(6, Num(1000), 75) }

FitRows ==
    { [y |-> 50, fin |-> "ok"], [y |-> 100000, fin |-> "ok"],
      [y |-> -1, fin |-> "ok"], [y |-> 200000000, fin |-> "ok"],
      NanRow, [y |-> 0, fin |-> "inf"] }

DataOfLength(n) == [1..n -> FitPoints]

OdeOutcomes(n) ==
    {[raises |-> TRUE, rows |-> <<>>]}
       \cup {[raises |-> FALSE, rows |-> rows] : rows \in [1..n -> FitRows]}

ThreadIdle ==
    /\ seed = 0
    /\ rngPos = 0
    /\ restarts = 1
    /\ pop_size = 3
    /\ generations = 1
    /\ clinical_data = <<>>
    /\ is_running = TRUE
    /\ pc = "idle"
    /\ r = 0
    /\ gen = 0
    /\ population = <<>>
    /\ best_history = <<>>
    /\ steps_done = 0
    /\ results = <<>>
    /\ best_solution = None
    /\ best_fitness = None
    /\ best_run_history = None
    /\ emitted = <<>>

threadVars == <<seed, rngPos, restarts, pop_size, generations, clinical_data,
                is_running, pc, r, gen, population, best_history, steps_done,
                results, best_solution, best_fitness, best_run_history, emitted>>

InitFit ==
    /\ ThreadIdle
    /\ \E n \in 0..MaxPoints :
         \E data \in DataOfLength(n), ode \in OdeOutcomes(n), params \in ParamSets :
            call = [fn |-> "calculate_fitness", params |-> params, data |-> data,
                    ode |-> ode, done |-> FALSE,
                    result |-> [raised |-> FALSE, value |-> 0],
                    locals |-> [total_error |-> 0, weights_sum |-> 0,
                                measured_points |-> 0],
                    simple_done |-> FALSE,
                    simple |-> [raised |-> FALSE, value |-> 0, counted |-> 0],
                    sim_done |-> FALSE,
                    sim |-> [raised |-> FALSE, rows |-> <<>>, time_points |-> <<>>]]

\* calculate_fitness(params, data) on the drawn inputs
EvaluateFitness ==
    /\ call.fn = "calculate_fitness"
    /\ ~call.done
    /\ call' = [call EXCEPT !.done = TRUE,
                            !.result = FitnessCall(call.params, call.data,
                                                   DETECTION_LIMIT, call.ode),
                            !.locals = FitnessLocals(call.params, call.data,
                                                     DETECTION_LIMIT, call.ode)]
    /\ UNCHANGED threadVars

\* calculate_fitness_simple(params, data) on the same inputs
EvaluateFitnessSimple ==
    /\ call.fn = "calculate_fitness"
    /\ ~call.simple_done
    /\ call' = [call EXCEPT !.simple_done = TRUE,
                            !.simple = FitnessSimpleCall(call.params, call.data,
                                                         DETECTION_LIMIT, call.ode)]
    /\ UNCHANGED threadVars

\* simulate_model_with_variable_dosing(params, time_dose_pairs) on the same
\* inputs, called directly
Simulate ==
    /\ call.fn = "calculate_fitness"
    /\ ~call.sim_done
    /\ call' = [call EXCEPT !.sim_done = TRUE,
                            !.sim = simulate_model_with_variable_dosing(
                                       call.params, TimeDosePairs(call.data),
                                       call.ode)]
    /\ UNCHANGED threadVars

NextFit == EvaluateFitness \/ EvaluateFitnessSimple \/ Simulate

SpecFit == InitFit /\ [][NextFit]_vars

(***************************************************************************)
(* plot_projection_with_strategies (projection_scenarios.py:263-589).       *)
(* A scenario is <<mes_inicio, mes_fin, dosis_pct>>, the dose in tenths of  *)
(* a percent as the scenario table shows it ("50.0%"); a dose dictionary    *)
(* maps a month to a dose in percent of the full dose, the unit of the      *)
(* clinical doses.  An empty scenario list stands for scenarios_data=None.  *)
(***************************************************************************)
MaxMonth == 2
MaxScenarios == 2

\* max([mes_fin for _, mes_fin, _ in scenarios_data])
MaxMesFin(scenarios_data) ==
    CHOOSE e \in {scenarios_data[k][2] : k \in 1..Len(scenarios_data)} :
        \A k \in 1..Len(scenarios_data) : scenarios_data[k][2] <= e

\* lines 312-319
ProjectionEnd(scenarios_data, last_clinical_month) ==
    IF scenarios_data # <<>>
    THEN Max2(MaxMesFin(scenarios_data), last_clinical_month)
    ELSE last_clinical_month

\* the months point i of the sorted data writes (lines 331-339)
HoldRange(sorted, i, last_clinical_month) ==
    IF i < Len(sorted)
    THEN sorted[i][1] .. (sorted[i + 1][1] - 1)
    ELSE sorted[i][1] .. last_clinical_month

\* a variant that holds a dose backwards, up to and including its month
ClinicalDoseDictBackward(clinical_data_for_simulation, last_clinical_month) ==
    LET sorted == SortByTime(TimeDosePairs(clinical_data_for_simulation))
        Range(i) == IF i = 1 THEN sorted[1][1] .. sorted[1][1]
                    ELSE (sorted[i - 1][1] + 1) .. sorted[i][1]
        months == UNION {Range(i) : i \in 1..Len(sorted)}
    IN [month \in months |->
          sorted[CHOOSE i \in 1..Len(sorted) : month \in Range(i)][2]]

\* lines 324-339: clinical_dose_dict; a later point overwrites an earlier one
ClinicalDoseDict(clinical_data_for_simulation, last_clinical_month) ==
    LET sorted == SortByTime(TimeDosePairs(clinical_data_for_simulation))
        months == UNION {HoldRange(sorted, i, last_clinical_month) :
                            i \in 1..Len(sorted)}
    IN [month \in months |->
          LET i == CHOOSE k \in 1..Len(sorted) :
                     /\ month \in HoldRange(sorted, k, last_clinical_month)
                     /\ \A j \in (k + 1)..Len(sorted) :
                           month \notin HoldRange(sorted, j, last_clinical_month)
          IN sorted[i][2]]

\* lines 348-352: index of the first scenario containing the month, 0 if none
FirstMatch(scenarios_data, month) ==
    IF \E k \in 1..Len(scenarios_data) :
          scenarios_data[k][1] <= month /\ month <= scenarios_data[k][2]
    THEN CHOOSE k \in 1..Len(scenarios_data) :
          /\ scenarios_data[k][1] <= month /\ month <= scenarios_data[k][2]
          /\ \A j \in 1..(k - 1) :
                ~(scenarios_data[j][1] <= month /\ month <= scenarios_data[j][2])
    ELSE 0

\* a variant in which the last matching scenario wins
LastMatch(scenarios_data, month) ==
    IF \E k \in 1..Len(scenarios_data) :
          scenarios_data[k][1] <= month /\ month <= scenarios_data[k][2]
    THEN CHOOSE k \in 1..Len(scenarios_data) :
          /\ scenarios_data[k][1] <= month /\ month <= scenarios_data[k][2]
          /\ \A j \in (k + 1)..Len(scenarios_data) :
                ~(scenarios_data[j][1] <= month /\ month <= scenarios_data[j][2])
    ELSE 0

\* dosis_pct / 100.0, as a dose in percent of the full dose
DoseOfPercent(dosis_pct) == dosis_pct \div 10

\* a variant of the fallback: the dose of the last scenario of the list
UnassignedDoseLastScenario(scenarios_data, month, clinical_dose_dict, last_clinical_month, last_clinical_dose) ==
    DoseOfPercent(scenarios_data[Len(scenarios_data)][3])

\* lines 353-360: the dose of a month no scenario contains
UnassignedDose(scenarios_data, month, clinical_dose_dict, last_clinical_month, last_clinical_dose) ==
    IF month <= last_clinical_month
    THEN (IF month \in DOMAIN clinical_dose_dict
          THEN clinical_dose_dict[month]
          ELSE last_clinical_dose)
    ELSE last_clinical_dose

\* a variant of the synthesis with last-match-wins
ProjectionDoseDictLastMatch(scenarios_data, projection_end, clinical_dose_dict, last_clinical_month, last_clinical_dose) ==
    IF scenarios_data = <<>> THEN <<>>
    ELSE [month \in 0..projection_end |->
            LET k == LastMatch(scenarios_data, month)
            IN IF k # 0 THEN DoseOfPercent(scenarios_data[k][3])
               ELSE UnassignedDose(scenarios_data, month, clinical_dose_dict,
                                   last_clinical_month, last_clinical_dose)]

\* lines 342-363: projection_dose_dict
ProjectionDoseDict(scenarios_data, projection_end, clinical_dose_dict, last_clinical_month, last_clinical_dose) ==
    IF scenarios_data = <<>> THEN <<>>
    ELSE [month \in 0..projection_end |->
            LET k == FirstMatch(scenarios_data, month)
            IN IF k # 0 THEN DoseOfPercent(scenarios_data[k][3])
               ELSE UnassignedDose(scenarios_data, month, clinical_dose_dict,
                                   last_clinical_month, last_clinical_dose)]

\* what odeint does on the projection's call: it raises, or returns one
\* finite row per month
ProjectionOde(solver, n) ==
    IF solver = "raises" THEN [raises |-> TRUE, rows |-> <<>>]
    ELSE [raises |-> FALSE, rows |-> [i \in 1..n |-> [y |-> 50, fin |-> "ok"]]]

\* clinical data: histories ordered by month, as the preloaded ones are,
\* one that starts after month 0, and table data listed out of month order
ProjectionClinicalSets ==
    { <<>>,
      <<Point(0, Num(280000), 50)>>,
      <<Point(0, Num(280000), 50), Point(2, Str("ND"), 25)>>,
      <<Point(1, Num(280000), 50), Point(3, Num(125000), 25)>>,
      <<Point(2, Num(125000), 25), Point(0, Num(280000), 50)>>,
      <<Point(0, Num(280000), 50), Point(2, Num(125000), 25),
        Point(1, Num(200000), 75)>> }

ScenarioIntervals ==
    {<<mes_inicio, mes_fin, dosis_pct>> :
        mes_inicio \in 0..MaxMonth, mes_fin \in 0..MaxMonth,
        dosis_pct \in {0, 1000}}

\* the strategy presets of the scenario card (main.py:780-784) and the
\* two-interval list of the specification's example
StrategyPresets ==
    { << <<0, 24, 1000>>, <<25, 120, 0>> >>,
      << <<0, 24, 1000>>, <<25, 36, 500>>, <<37, 120, 0>> >> }

ScenarioLists ==
    UNION {[1..n -> ScenarioIntervals] : n \in 0..MaxScenarios}
       \cup StrategyPresets

InitProj ==
    /\ ThreadIdle
    /\ \E params \in {None, FullParams}, data \in ProjectionClinicalSets,
          scenarios_data \in ScenarioLists, solver \in {"ok", "raises"} :
         call = [fn |-> "plot_projection_with_strategies",
                 params |-> params, clinical_data |-> data,
                 scenarios_data |-> scenarios_data, solver |-> solver,
                 step |-> "load",
                 last_clinical_month |-> 0, last_clinical_dose |-> 0,
                 projection_end |-> 0,
                 clinical_dose_dict |-> <<>>, projection_dose_dict |-> <<>>,
                 full_dose_dict |-> <<>>,
                 simulated |-> FALSE,
                 returned |-> [success |-> FALSE, message |-> ""]]

\* lines 270-319: no stored parameters is reported at once; an empty
\* history fails at clinical_months[-1] and ends in the except clause
LoadAndPrepare ==
    /\ call.fn = "plot_projection_with_strategies"
    /\ call.step = "load"
    /\ IF call.params = None
       THEN call' = [call EXCEPT !.step = "done",
                        !.returned = [success |-> FALSE, message |-> "no_params"]]
       ELSE IF call.clinical_data = <<>>
       THEN call' = [call EXCEPT !.step = "done",
                        !.returned = [success |-> FALSE, message |-> "error"]]
       ELSE LET last == call.clinical_data[Len(call.clinical_data)]
            IN call' = [call EXCEPT
                          !.step = "clinical",
                          !.last_clinical_month = last.t,
                          !.last_clinical_dose = last.dose,
                          !.projection_end =
                              ProjectionEnd(call.scenarios_data, last.t)]
    /\ UNCHANGED threadVars

\* lines 321-339
BuildClinicalDoseDict ==
    /\ call.fn = "plot_projection_with_strategies"
    /\ call.step = "clinical"
    /\ call' = [call EXCEPT
                  !.step = "projection",
                  !.clinical_dose_dict =
                      ClinicalDoseDict(call.clinical_data, call.last_clinical_month)]
    /\ UNCHANGED threadVars

\* lines 341-369
BuildProjectionDoseDict ==
    /\ call.fn = "plot_projection_with_strategies"
    /\ call.step = "projection"
    /\ LET projection_dose_dict ==
             ProjectionDoseDict(call.scenarios_data, call.projection_end,
                                call.clinical_dose_dict, call.last_clinical_month,
                                call.last_clinical_dose)
       IN call' = [call EXCEPT
                     !.step = "simulate",
                     !.projection_dose_dict = projection_dose_dict,
                     !.full_dose_dict = IF call.scenarios_data # <<>>
                                        THEN projection_dose_dict
                                        ELSE call.clinical_dose_dict]
    /\ UNCHANGED threadVars

\* lines 396-404, the plotting of 406-584 and the except clause of 586-589
SimulateProjection ==
    /\ call.fn = "plot_projection_with_strategies"
    /\ call.step = "simulate"
    /\ IF \E month \in 0..call.projection_end : month \notin DOMAIN call.full_dose_dict
       THEN call' = [call EXCEPT !.step = "done",
                        !.returned = [success |-> FALSE, message |-> "error"]]
       ELSE
         LET time_dose_pairs == [i \in 1..(call.projection_end + 1) |->
                                    <<i - 1, call.full_dose_dict[i - 1]>>]
             sim == simulate_model_with_variable_dosing(
                       call.params, time_dose_pairs,
                       ProjectionOde(call.solver, Len(time_dose_pairs)))
         IN call' = [call EXCEPT
                       !.step = "done",
                       !.simulated = TRUE,
                       !.returned =
                          IF sim.raised
                          THEN [success |-> FALSE, message |-> "error"]
                          ELSE IF \E i \in 1..Len(sim.rows) : sim.rows[i].fin = "nan"
                          THEN [success |-> FALSE, message |-> "invalid"]
                          ELSE [success |-> TRUE, message |-> "shown"]]
    /\ UNCHANGED threadVars

NextProj ==
    LoadAndPrepare \/ BuildClinicalDoseDict \/ BuildProjectionDoseDict
       \/ SimulateProjection

SpecProj == InitProj /\ [][NextProj]_vars

(***************************************************************************)
(* generate_dose_schedule_tapering (projection_scenarios.py:84-137).        *)
(* dose_schedule is [kind |-> "list", intervals |-> ...], [kind |-> "num",  *)
(* dose |-> initial dose in percent] or [kind |-> "none"]; taper_rate is in *)
(* percent; an interval is <<start, end, dose>> and the doses of intervals  *)
(* and of the schedule are in hundredths of a percent of the full dose.     *)
(***************************************************************************)
MaxHorizon == 10
MaxTaperInterval == 2

\* int(math.ceil(1.0 / max(1e-9, taper_rate))), line 108, for a rate > 0
MaxSteps(taper_rate) == (100 + taper_rate - 1) \div taper_rate

\* a variant whose intervals end one month before the next one starts
TaperIntervalsWithGaps(months, initial_dose, taper_interval, taper_rate) ==
    LET max_steps == MaxSteps(taper_rate)
    IN [k \in 1..(max_steps + 1) |->
          LET step == k - 1
          IN << step * taper_interval,
                IF step < max_steps THEN (step + 1) * taper_interval - 1
                ELSE months,
                Max2(0, 100 - step * taper_rate) * initial_dose >>]

\* lines 106-118: the intervals of a single starting dose
TaperIntervals(months, initial_dose, taper_interval, taper_rate) ==
    LET max_steps == MaxSteps(taper_rate)
    IN [k \in 1..(max_steps + 1) |->
          LET step == k - 1
          IN << step * taper_interval,
                IF step < max_steps THEN (step + 1) * taper_interval
                ELSE months,
                Max2(0, 100 - step * taper_rate) * initial_dose >>]

\* lines 101-121
ScheduleIntervals(months, dose_schedule, taper_interval, taper_rate) ==
    IF dose_schedule.kind = "list" THEN dose_schedule.intervals
    ELSE IF dose_schedule.kind = "num"
    THEN TaperIntervals(months, dose_schedule.dose, taper_interval, taper_rate)
    ELSE << <<0, 25, 5000>>, <<25, 50, 2500>>, <<50, months, 0>> >>

\* lines 124-135: first matching interval, else the last interval's dose,
\* else 0.0
FillSchedule(months, intervals) ==
    [month \in 0..months |->
        LET k == FirstMatch(intervals, month)
        IN IF k # 0 THEN intervals[k][3]
           ELSE IF intervals # <<>> THEN intervals[Len(intervals)][3]
           ELSE 0]

generate_dose_schedule_tapering(months, dose_schedule, taper_interval, taper_rate) ==
    FillSchedule(months,
                 ScheduleIntervals(months, dose_schedule, taper_interval, taper_rate))

TaperRates == {25, 30, 50, 100}

TaperDoses == {0, 25, 50, 100}

DoseSchedules ==
    {[kind |-> "none"]}
       \cup {[kind |-> "num", dose |-> d] : d \in TaperDoses}
       \cup {[kind |-> "list", intervals |-> l] :
                l \in {<<>>, << <<0, 1, 5000>>, <<3, 4, 0>> >>}}

\* generate_dose_schedule_tapering(projection_end, last_dose) of
\* project_model_with_strategy (line 173) uses the defaults 25 and 0.25
InitTaper ==
    /\ ThreadIdle
    /\ \E dose_schedule \in DoseSchedules :
       \E shape \in ((0..MaxHorizon) \X (1..MaxTaperInterval) \X TaperRates)
                       \cup ({60, 120} \X {25} \X {25}) :
         call = [fn |-> "generate_dose_schedule_tapering",
                 months |-> shape[1], dose_schedule |-> dose_schedule,
                 taper_interval |-> shape[2], taper_rate |-> shape[3],
                 step |-> "intervals", intervals |-> <<>>, schedule |-> <<>>]

\* lines 99-121
BuildIntervals ==
    /\ call.fn = "generate_dose_schedule_tapering"
    /\ call.step = "intervals"
    /\ call' = [call EXCEPT
                  !.step = "fill",
                  !.intervals = ScheduleIntervals(call.months, call.dose_schedule,
                                                  call.taper_interval,
                                                  call.taper_rate)]
    /\ UNCHANGED threadVars

\* lines 123-137
FillAndReturn ==
    /\ call.fn = "generate_dose_schedule_tapering"
    /\ call.step = "fill"
    /\ call' = [call EXCEPT
                  !.step = "done",
                  !.schedule = FillSchedule(call.months, call.intervals)]
    /\ UNCHANGED threadVars

NextTaper == BuildIntervals \/ FillAndReturn

SpecTaper == InitTaper /\ [][NextTaper]_vars

(***************************************************************************)
(* model_with_variable_dosing, the dose lookup of the simulator             *)
(* (optimizer_core.py:133-146), called on its own: the breakpoint list and  *)
(* the times the integrator asks for are drawn from bounded sets.  Doses    *)
(* are in percent of the full dose, so the default 1.0 is 100.  The         *)
(* integrator's t is a float; between two whole months the comparisons of   *)
(* line 142 come out as at the whole month below, which the model uses.     *)
(***************************************************************************)
MaxBreakpoints == 3
MaxBreakTime == 2

\* lines 141-145: scan the sorted pairs from position k, keep the dose of
\* each pair with tv <= t, stop at the first pair with tv > t
RECURSIVE DoseScan(_, _, _, _)
DoseScan(sorted, t, k, current_dose) ==
    IF k > Len(sorted) THEN current_dose
    ELSE IF sorted[k][1] <= t THEN DoseScan(sorted, t, k + 1, sorted[k][2])
    ELSE current_dose

\* lines 139-145: current_dose starts at 1.0
CurrentDose(sorted, t) == DoseScan(sorted, t, 1, 100)

Breakpoints == (0..MaxBreakTime) \X {0, 50}

RECURSIVE SeqsUpTo(_, _)
SeqsUpTo(S, n) ==
    IF n = 0 THEN {<<>>}
    ELSE LET shorter == SeqsUpTo(S, n - 1)
         IN shorter \cup {Append(q, x) : q \in {w \in shorter : Len(w) = n - 1},
                                          x \in S}

Reorderings(pairs) ==
    {[i \in 1..Len(pairs) |-> pairs[perm[i]]] :
        perm \in Permutations(1..Len(pairs))}

\* a call of simulate_model_with_variable_dosing on a breakpoint list, and
\* beside it a call on the same breakpoints given in another order
InitDose ==
    /\ ThreadIdle
    /\ \E time_dose_pairs \in SeqsUpTo(Breakpoints, MaxBreakpoints) :
       \E reordered \in Reorderings(time_dose_pairs) :
         call = [fn |-> "model_with_variable_dosing",
                 time_dose_pairs |-> time_dose_pairs, reordered |-> reordered,
                 step |-> "sort", sorted |-> <<>>, sorted_reordered |-> <<>>,
                 asked |-> FALSE, t |-> 0,
                 current_dose |-> 100, current_dose_reordered |-> 100]

\* line 134
SortBreakpoints ==
    /\ call.fn = "model_with_variable_dosing"
    /\ call.step = "sort"
    /\ call' = [call EXCEPT !.step = "integrate",
                            !.sorted = SortByTime(call.time_dose_pairs),
                            !.sorted_reordered = SortByTime(call.reordered)]
    /\ UNCHANGED threadVars

\* lines 138-146: the integrator evaluates the right-hand side at a time t
DoseLookup ==
    /\ call.fn = "model_with_variable_dosing"
    /\ call.step = "integrate"
    /\ \E t \in (0 - 1)..(MaxBreakTime + 1) :
         call' = [call EXCEPT
                    !.asked = TRUE,
                    !.t = t,
                    !.current_dose = CurrentDose(call.sorted, t),
                    !.current_dose_reordered =
                        CurrentDose(call.sorted_reordered, t)]
    /\ UNCHANGED threadVars

NextDose == SortBreakpoints \/ DoseLookup

SpecDose == InitDose /\ [][NextDose]_vars

(***************************************************************************)
(* genetic_algorithm (optimizer_core.py:609-673) with its objects.          *)
(* An individual is a dict, and the population, the selected parents and    *)
(* the history hold references to dicts.  Here call.heap is the sequence of *)
(* the dicts created so far, a reference is an index into it, and each      *)
(* statement that creates a dict ({}, .copy()) appends to the heap.  A      *)
(* history entry also keeps `recorded`, the genes its dict had when the     *)
(* entry was appended.  No stop_check is given.                             *)
(***************************************************************************)
\* lines 633-634: the population holds the dicts create_initial_population
\* made, the history is empty
InitAlias ==
    /\ ThreadIdle
    /\ \E s \in 0..MaxSeed, population_size \in TournamentSize..MaxPop,
          gens \in 1..MaxGens, data \in ClinicalSets :
         call = [fn |-> "genetic_algorithm",
                 seed |-> s, rngPos |-> 7 * population_size,
                 generations |-> gens, clinical_data |-> data,
                 step |-> "evaluate", gen |-> 0,
                 heap |-> create_initial_population(population_size, s, 0),
                 population |-> [i \in 1..population_size |-> i],
                 fitnesses |-> <<>>, best_individual |-> 0,
                 best_history |-> <<>>, selected |-> <<>>,
                 new_population |-> <<>>]

\* lines 636-652: the fitness list, best_idx, best_individual (a reference
\* into the population) and the copy of it appended to best_history
EvaluateGeneration ==
    /\ call.fn = "genetic_algorithm"
    /\ call.step = "evaluate"
    /\ call.gen < call.generations
    /\ LET fitnesses == [i \in 1..Len(call.population) |->
                            Fitness(call.heap[call.population[i]],
                                    call.clinical_data)]
           best_idx        == ArgMax(fitnesses)
           best_individual == call.population[best_idx]
       IN call' = [call EXCEPT
                     !.step = "select",
                     !.fitnesses = fitnesses,
                     !.best_individual = best_individual,
                     !.heap = Append(call.heap, call.heap[best_individual]),
                     !.best_history =
                         Append(call.best_history,
                                [ref |-> Len(call.heap) + 1,
                                 recorded |-> call.heap[best_individual],
                                 fit |-> fitnesses[best_idx]])]
    /\ UNCHANGED threadVars

\* lines 655 and 522-529: every parent is a copy of its tournament's winner
SelectParents ==
    /\ call.fn = "genetic_algorithm"
    /\ call.step = "select"
    /\ LET n == Len(call.population)
           winner(k) == FirstMaxOf(Sample3(n, call.seed, call.rngPos + 3 * (k - 1)),
                                   call.fitnesses)
           copies == [k \in 1..n |-> call.heap[call.population[winner(k)]]]
       IN call' = [call EXCEPT
                     !.step = "breed",
                     !.heap = call.heap \o copies,
                     !.selected = [k \in 1..n |-> Len(call.heap) + k],
                     !.rngPos = call.rngPos + 3 * n]
    /\ UNCHANGED threadVars

\* mutate (lines 583-606) on the dict at ref: the dict is copied and the
\* genes are written into the copy; the result is <<heap, reference>>
MutateObject(heap, ref, s, p) ==
    LET copied == Append(heap, heap[ref])
        target == Len(copied)
    IN <<[copied EXCEPT ![target] = mutate(copied[target], s, p)], target>>

\* lines 658-663: each pair of parents gives two new dicts (crossover), and
\* the population receives the mutated copies of them
BreedChildren ==
    /\ call.fn = "genetic_algorithm"
    /\ call.step = "breed"
    /\ LET n     == Len(call.selected)
           pairs == (n + 1) \div 2
           base  == Len(call.heap)
           bred(j) ==
               LET p1 == call.selected[2 * j - 1]
                   p2 == IF 2 * j <= n THEN call.selected[2 * j]
                         ELSE call.selected[1]
                   q  == call.rngPos + 35 * (j - 1)
                   c  == crossover(call.heap[p1], call.heap[p2], call.seed, q)
                   withChildren == <<c[1], c[2]>>
                   m1 == MutateObject(withChildren, 1, call.seed, q + 7)
                   m2 == MutateObject(m1[1], 2, call.seed, q + 21)
               IN m2[1]
           created == [i \in 1..(4 * pairs) |->
                          bred((i + 3) \div 4)[((i - 1) % 4) + 1]]
       IN call' = [call EXCEPT
                     !.step = "elitism",
                     !.heap = call.heap \o created,
                     !.new_population =
                         [i \in 1..(2 * pairs) |->
                             base + 4 * ((i - 1) \div 2) + 3 + ((i - 1) % 2)],
                     !.rngPos = call.rngPos + 35 * pairs]
    /\ UNCHANGED threadVars

\* a variant that mutates the elite of slot 1 where it is
ApplyElitismRemutates ==
    /\ call.fn = "genetic_algorithm"
    /\ call.step = "elitism"
    /\ LET previous == call.best_history[Len(call.best_history)].ref
       IN call' = [call EXCEPT
                     !.step = "evaluate",
                     !.gen = call.gen + 1,
                     !.heap = [call.heap EXCEPT
                                 ![previous] = mutate(@, call.seed, call.rngPos)],
                     !.population =
                         [call.new_population EXCEPT
                             ![1] = call.best_individual,
                             ![2] = previous]]
    /\ UNCHANGED threadVars

\* lines 665-671: the references themselves go into the new population
ApplyElitism ==
    /\ call.fn = "genetic_algorithm"
    /\ call.step = "elitism"
    /\ LET placed ==
             IF Len(call.new_population) >= 2
             THEN IF Len(call.best_history) > 1
                  THEN [call.new_population EXCEPT
                          ![1] = call.best_individual,
                          ![2] = call.best_history[Len(call.best_history) - 1].ref]
                  ELSE [call.new_population EXCEPT ![1] = call.best_individual]
             ELSE call.new_population
       IN call' = [call EXCEPT
                     !.step = "evaluate",
                     !.gen = call.gen + 1,
                     !.population = placed]
    /\ UNCHANGED threadVars

\* line 673
ReturnBest ==
    /\ call.fn = "genetic_algorithm"
    /\ call.step = "evaluate"
    /\ call.gen = call.generations
    /\ call' = [call EXCEPT !.step = "done"]
    /\ UNCHANGED threadVars

NextAlias ==
    \/ EvaluateGeneration
    \/ SelectParents
    \/ BreedChildren
    \/ ApplyElitism
    \/ ReturnBest

SpecAlias == InitAlias /\ [][NextAlias]_vars

(***************************************************************************)
(* Properties of the GA and of the worker, checked under Spec.              *)
(***************************************************************************)
GenesInBounds(ind) ==
    \A gene \in Genes : Lower(gene) <= ind[gene] /\ ind[gene] <= Upper(gene)

HistoryInBounds(history) ==
    \A k \in 1..Len(history) : GenesInBounds(history[k].ind)

Emitted(sig) == {i \in 1..Len(emitted) : emitted[i].sig = sig}

FinishedEmitted == Emitted("finished") # {}

ErrorEmitted == Emitted("error") # {}

\* the notifications progress_cb sent (the final emit(100) carries r = -1)
CallbackProgress == {i \in Emitted("progress") : emitted[i].r >= 0}

\* C1: every gene of every individual of the population, of the generation
\* history and of the recorded results lies within its GENE_BOUNDS interval,
\* bounds included.
C1_GenesWithinBounds ==
    /\ \A i \in 1..Len(population) : GenesInBounds(population[i])
    /\ HistoryInBounds(best_history)
    /\ \A k \in 1..Len(results) :
          GenesInBounds(results[k].best) /\ HistoryInBounds(results[k].history)

\* a bred child (not an elitism slot) sits exactly on a bound of a gene that
\* the initial draw cannot put there: the clip of crossover or mutate acted
C1_Witness ==
    /\ pc = "gen"
    /\ gen >= 1
    /\ \E i \in 3..Len(population) :
          \/ population[i]["TKI_effect"] \in {Lower("TKI_effect"), Upper("TKI_effect")}
          \/ population[i]["p_Y"] \in {Lower("p_Y"), Upper("p_Y")}
          \/ population[i]["initLRATIO"] = Upper("initLRATIO")

NonDecreasing(history) ==
    \A k \in 1..(Len(history) - 1) : history[k + 1].fit >= history[k].fit

\* C2: elitism - the best fitness recorded for generation g+1 is never below
\* the best fitness recorded for generation g, in the running restart and in
\* every recorded one.
C2_BestFitnessNeverDecreases ==
    /\ NonDecreasing(best_history)
    /\ \A k \in 1..Len(results) : NonDecreasing(results[k].history)

\* two consecutive generations were evaluated, the second strictly better
C2_Witness ==
    /\ Len(best_history) >= 2
    /\ best_history[2].fit > best_history[1].fit

\* C3: the step that emits the success payload delivers, of the recorded
\* restarts, one whose recomputed fitness is the maximum, together with that
\* restart's own best individual and generation history.
C3_BestOfRestarts ==
    [][(pc = "emit" /\ Emitted("finished")' # {}) =>
          /\ \A k \in 1..Len(results) : results[k].fit <= best_fitness'
          /\ \E k \in 1..Len(results) :
                /\ results[k].fit = best_fitness'
                /\ results[k].best = best_solution'
                /\ results[k].history = best_run_history'
          /\ emitted'[Len(emitted')] = Signal("finished", best_fitness', -1, -1)]_vars

\* all restarts completed uncancelled with different fitness, and the payload
\* was delivered
C3_Witness ==
    /\ pc = "done"
    /\ FinishedEmitted
    /\ restarts >= 2
    /\ Len(results) = restarts
    /\ results[1].fit > results[2].fit

\* C4: once stop() has cleared the flag with no restart recorded and none
\* past the check that keeps its result, the flag stays cleared, nothing is
\* recorded any more and no success payload is ever emitted.
C4_NoSuccessAfterEarlyStop ==
    [][(~is_running /\ results = <<>> /\ pc # "append") =>
          (~is_running' /\ results' = <<>> /\ pc' # "append"
             /\ ~FinishedEmitted')]_vars

\* a restart ran all its generations, stop() came before its result was
\* recorded, and the run ended
C4_Witness ==
    /\ pc = "done"
    /\ ~is_running
    /\ results = <<>>
    /\ steps_done >= generations

\* C5 (as claimed): a cancelled run never emits an error payload (population
\* large enough for the tournament, so that only cancellation is at play).
C5_CancelEmitsNoError ==
    (~is_running /\ pop_size >= TournamentSize) => ~ErrorEmitted

\* C6: the success payload is emitted at most once, only when run() has left
\* the restart loop and finished, only with at least one restart recorded,
\* and it is the last signal.
C6_FinishedOnceAtEnd ==
    /\ Cardinality(Emitted("finished")) <= 1
    /\ FinishedEmitted =>
          /\ pc = "done"
          /\ results # <<>>
          /\ emitted[Len(emitted)].sig = "finished"

\* the payload was emitted by a run of two restarts
C6_Witness ==
    /\ FinishedEmitted
    /\ restarts >= 2
    /\ Len(results) >= 2

\* C7 (as claimed): a finished run that reported progress 100 also emitted
\* the success payload.
C7_Progress100OnlyOnSuccess ==
    (pc = "done" /\ pop_size >= TournamentSize
       /\ \E i \in Emitted("progress") : emitted[i].val = 100)
    => FinishedEmitted

\* C8: progress notifications come in restart order and, within a restart,
\* in strictly increasing generation order; a restart reports only after
\* every earlier restart reported all its generations; the percentage never
\* decreases and stays within 0..100.
C8_ProgressInOrder ==
    /\ \A i, j \in CallbackProgress :
          i < j => \/ emitted[i].r < emitted[j].r
                   \/ emitted[i].r = emitted[j].r /\ emitted[i].gen < emitted[j].gen
    /\ \A j \in CallbackProgress :
          \A rr \in 0..(emitted[j].r - 1) :
             \A g \in 0..(generations - 1) :
                \E i \in CallbackProgress :
                   i < j /\ emitted[i].r = rr /\ emitted[i].gen = g
    /\ \A i, j \in Emitted("progress") : i < j => emitted[i].val <= emitted[j].val
    /\ \A i \in Emitted("progress") : emitted[i].val >= 0 /\ emitted[i].val <= 100

\* the second restart has reported its second generation
C8_Witness ==
    \E j \in CallbackProgress : emitted[j].r = 1 /\ emitted[j].gen = 1

\* C9 (as claimed): the population holds exactly pop_size individuals at the
\* start of every generation.
C9_PopulationSizeFixed ==
    pc = "body" => Len(population) = pop_size

(***************************************************************************)
(* Properties of calculate_fitness, checked under SpecFit.                  *)
(***************************************************************************)
\* the simulator reports failure: it raises, or the state is not finite
SimulatorFailed ==
    \/ ~(InitialConditionGenes \subseteq DOMAIN call.params)
    \/ call.ode.raises
    \/ \E i \in 1..Len(call.ode.rows) : call.ode.rows[i].fin # "ok"

\* a simulated Y outside the physical range 0 .. 100 K_Y
SimulatedYOutOfRange ==
    /\ ~call.ode.raises
    /\ \E i \in 1..Len(call.ode.rows) :
          call.ode.rows[i].y < 0 \/ call.ode.rows[i].y > 100 * K_Y

\* the point is ND or carries a number in (0, 100]
UsablePoint(point) ==
    \/ point.val.kind = "str" /\ point.val.text \in {"ND", "nd", "Nd", "nD"}
    \/ point.val.kind = "num" /\ point.val.v > 0 /\ point.val.v <= 100000000

NoUsablePoint == \A i \in 1..Len(call.data) : ~UsablePoint(call.data[i])

\* C10 (as claimed): the call never raises and returns the sentinel exactly
\* when the simulator failed or no point is usable.
C10_SentinelCasesAsClaimed ==
    call.done =>
       /\ ~call.result.raised
       /\ call.result.value = Sentinel <=> (SimulatorFailed \/ NoUsablePoint)

\* C10 (amended): the call never raises; it returns the sentinel exactly
\* when the simulator failed, a simulated Y is outside 0 .. 100 K_Y, or no
\* point is usable; otherwise it returns minus a normalized error, a number
\* <= 0 above the sentinel, which for a single numeric point is five times
\* the squared log-ratio gap.
C10_SentinelCases ==
    call.done =>
       /\ ~call.result.raised
       /\ call.result.value = Sentinel
             <=> (SimulatorFailed \/ SimulatedYOutOfRange \/ NoUsablePoint)
       /\ call.result.value # Sentinel =>
             /\ call.result.value <= 0
             /\ call.result.value > Sentinel
             /\ (Len(call.data) = 1 /\ call.data[1].val.kind = "num") =>
                   call.result.value =
                      0 - 500 * Sq(calculate_lratio(call.ode.rows[1].y)
                                     - Log10Q(call.data[1].val.v, 1000000))

\* a call on two usable points and a valid simulation returned a real score
C10_Witness ==
    /\ call.done
    /\ Len(call.data) = 2
    /\ call.result.value # Sentinel
    /\ call.result.value < 0
    /\ \A i \in 1..2 : UsablePoint(call.data[i])

(***************************************************************************)
(* Clinical input without a usable point, checked under Spec.               *)
(***************************************************************************)
\* every point of the run's clinical data is filtered out by the evaluator
NoUsableClinicalPoint ==
    \A i \in 1..Len(clinical_data) : ~UsablePoint(clinical_data[i])

\* C11 (as claimed): a run whose clinical data hold no usable point never
\* ends in the success payload.
C11_NoDataNeverSucceeds ==
    NoUsableClinicalPoint => ~FinishedEmitted

(***************************************************************************)
(* Properties of the evaluator's weighting, checked under SpecFit.          *)
(***************************************************************************)
\* the simulation of the call is usable: no failure, every Y in range
ValidSimulation == ~SimulatorFailed /\ ~SimulatedYOutOfRange

LastPoint == call.data[Len(call.data)]

\* the accumulators of the same call over the data without its last point
LocalsBeforeLast ==
    Accumulate(call.sim, SubSeq(call.data, 1, Len(call.data) - 1),
               DETECTION_LIMIT)

\* the score those accumulators give
ScoreBeforeLast ==
    IF LocalsBeforeLast.measured_points = 0 \/ LocalsBeforeLast.weights_sum = 0
    THEN Sentinel
    ELSE 0 - NormalizedError(LocalsBeforeLast)

\* the phase weights as the specification lists them, in hundredths
PhaseWeight(dose) ==
    CASE dose = 100 -> 200
      [] dose = 50  -> 150
      [] dose = 25  -> 130
      [] dose = 0   -> 250
      [] OTHER      -> 100

\* simulated log-ratio at the last point minus log10(1e-4), quarter decades
GapAboveLimit == calculate_lratio(call.sim.rows[Len(call.data)].y) + 16

LastIsND ==
    /\ Len(call.data) >= 1
    /\ LastPoint.val.kind = "str"
    /\ LastPoint.val.text \in {"ND", "nd", "Nd", "nD"}
    /\ \A i \in 1..(Len(call.data) - 1) : call.data[i].t < LastPoint.t

\* C17: an ND point whose simulated log-ratio is not above log10(detection
\* limit) adds nothing to the error sum, phase-weight * 0.1 to the weight sum
\* and is counted, and the score is not below the score without the point;
\* an ND point above the limit adds the squared gap times phase-weight * 3
\* to the error sum and phase-weight * 3 to the weight sum.
C17_NDPointContribution ==
    (call.done /\ call.sim_done /\ ValidSimulation /\ LastIsND) =>
       LET w == PhaseWeight(LastPoint.dose)
       IN /\ call.locals.measured_points = LocalsBeforeLast.measured_points + 1
          /\ IF GapAboveLimit <= 0
             THEN /\ call.locals.total_error = LocalsBeforeLast.total_error
                  /\ call.locals.weights_sum
                        = LocalsBeforeLast.weights_sum + w \div 10
                  /\ call.result.value >= ScoreBeforeLast
             ELSE /\ call.locals.total_error
                        = LocalsBeforeLast.total_error
                            + GapAboveLimit * GapAboveLimit * 3 * w
                  /\ call.locals.weights_sum
                        = LocalsBeforeLast.weights_sum + 3 * w

\* a correctly predicted ND point after a numeric point with a real error
C17_Witness ==
    /\ call.done /\ call.sim_done /\ ValidSimulation /\ LastIsND
    /\ Len(call.data) = 2
    /\ GapAboveLimit <= 0
    /\ LocalsBeforeLast.total_error > 0
    /\ call.result.value > ScoreBeforeLast

\* C18 (as claimed): the simulator never raises to its caller; when the
\* solver raises, the result is an all-NaN trajectory.
C18_SimulatorNeverRaises ==
    call.sim_done =>
       /\ ~call.sim.raised
       /\ call.ode.raises =>
             \A i \in 1..Len(call.sim.rows) : call.sim.rows[i].fin = "nan"

\* the factor on the phase weight, in tenths, of a single usable point
PointFactor ==
    IF LastPoint.val.kind = "str"
    THEN (IF GapAboveLimit <= 0 THEN 1 ELSE 30)
    ELSE (IF LastPoint.val.v < 10000 THEN 15 ELSE 10)

\* C19: the phase weight depends on the dose only (1.0 -> 2.0, 0.5 -> 1.5,
\* 0.25 -> 1.3, 0.0 -> 2.5, any other -> 1.0), the post-cessation weight is
\* the largest, and ND and numeric points get the same phase weight.
C19_PhaseWeightByDose ==
    (call.done /\ call.sim_done /\ ValidSimulation /\ Len(call.data) = 1
       /\ UsablePoint(LastPoint)) =>
       /\ call.locals.weights_sum
             = (PhaseWeight(LastPoint.dose) * PointFactor) \div 10
       /\ \A p \in FitPoints : BaseWeight(p.dose) <= BaseWeight(0)

\* a correctly predicted ND point after cessation was weighted 2.5 * 0.1
C19_Witness ==
    /\ call.done /\ call.sim_done /\ ValidSimulation /\ Len(call.data) = 1
    /\ LastPoint.dose = 0
    /\ LastPoint.val.kind = "str"
    /\ UsablePoint(LastPoint)
    /\ call.locals.weights_sum = 25

\* C20 (as claimed): on the same inputs the simplified variant counts as
\* many points as the primary one and returns the sentinel in exactly the
\* same cases.
C20_VariantsSameStructure ==
    (call.done /\ call.simple_done) =>
       /\ (call.simple.value = Sentinel) <=> (call.result.value = Sentinel)
       /\ call.result.value # Sentinel =>
             call.simple.counted = call.locals.measured_points

(***************************************************************************)
(* Properties of the projection's dose schedule, checked under SpecProj.    *)
(***************************************************************************)
\* scenario k contains the month, both ends included
Contains(k, month) ==
    /\ call.scenarios_data[k][1] <= month
    /\ month <= call.scenarios_data[k][2]

Unmatched(month) == \A k \in 1..Len(call.scenarios_data) : ~Contains(k, month)

\* the schedule of a scenario list has been synthesized
Synthesized ==
    /\ call.step \in {"simulate", "done"}
    /\ call.params # None
    /\ call.clinical_data # <<>>
    /\ call.scenarios_data # <<>>

\* the clinical dose dictionary has been built
ClinicalPhaseBuilt ==
    /\ call.step \in {"projection", "simulate", "done"}
    /\ call.params # None
    /\ call.clinical_data # <<>>

LastClinical == call.clinical_data[Len(call.clinical_data)]

\* the clinical points are listed in month order
OrderedByMonth ==
    \A i \in 1..(Len(call.clinical_data) - 1) :
       call.clinical_data[i].t <= call.clinical_data[i + 1].t

\* some clinical point lies at or before the month
HasPointAtOrBefore(month) ==
    \E i \in 1..Len(call.clinical_data) : call.clinical_data[i].t <= month

\* the dose recorded at the latest clinical point at or before the month
HeldDose(month) ==
    LET i == CHOOSE k \in 1..Len(call.clinical_data) :
                /\ call.clinical_data[k].t <= month
                /\ \A j \in (k + 1)..Len(call.clinical_data) :
                      call.clinical_data[j].t > month
    IN call.clinical_data[i].dose

\* C12: scenario synthesis is first-match-wins in list order, both ends
\* inclusive: a month of 0..projection_end contained in some interval gets
\* dose_percent/100 of the first such interval; the list
\* [(0,24,100.0),(25,120,0.0)] gives 1.0 for months 0..24 and 0.0 for 25..120.
C12_FirstMatchWins ==
    Synthesized =>
       /\ DOMAIN call.projection_dose_dict = 0..call.projection_end
       /\ \A month \in 0..call.projection_end :
             \A k \in 1..Len(call.scenarios_data) :
                (Contains(k, month) /\ \A j \in 1..(k - 1) : ~Contains(j, month))
                   => call.projection_dose_dict[month] * 10
                         = call.scenarios_data[k][3]
       /\ call.scenarios_data = << <<0, 24, 1000>>, <<25, 120, 0>> >> =>
             /\ call.projection_end = 120
             /\ \A month \in 0..24 : call.projection_dose_dict[month] = 100
             /\ \A month \in 25..120 : call.projection_dose_dict[month] = 0

\* a month inside two scenarios of different doses took the first one's dose
C12_Witness ==
    /\ Synthesized
    /\ Len(call.scenarios_data) = 2
    /\ call.scenarios_data[1][3] # call.scenarios_data[2][3]
    /\ \E month \in 0..call.projection_end :
          /\ Contains(1, month) /\ Contains(2, month)
          /\ call.projection_dose_dict[month] * 10 = call.scenarios_data[1][3]

\* C13 (as claimed): over a history in month order, a month no scenario
\* contains gets the held clinical dose when it is not after the last
\* clinical month, and otherwise the dose assigned to the month before it.
C13_FallbackAsClaimed ==
    (Synthesized /\ OrderedByMonth) =>
       \A month \in 0..call.projection_end :
          Unmatched(month) =>
             IF month <= LastClinical.t
             THEN HasPointAtOrBefore(month) =>
                     call.projection_dose_dict[month] = HeldDose(month)
             ELSE call.projection_dose_dict[month]
                     = call.projection_dose_dict[month - 1]

\* C13 (amended): over a history in month order, a month no scenario
\* contains gets, when it is not after
\* the last clinical month, the clinical dose held at that month (the last
\* clinical point's dose if it precedes every clinical point), and otherwise
\* the last clinical point's dose.
C13_Fallback ==
    (Synthesized /\ OrderedByMonth) =>
       \A month \in 0..call.projection_end :
          Unmatched(month) =>
             call.projection_dose_dict[month]
                = IF month <= LastClinical.t /\ HasPointAtOrBefore(month)
                  THEN HeldDose(month)
                  ELSE LastClinical.dose

\* a month after the clinical range that no scenario contains got the last
\* clinical dose although the month before it was assigned another dose
C13_Witness ==
    /\ Synthesized
    /\ \E month \in 1..call.projection_end :
          /\ Unmatched(month)
          /\ month > LastClinical.t
          /\ call.projection_dose_dict[month] = LastClinical.dose
          /\ call.projection_dose_dict[month - 1] # LastClinical.dose

C16_MalformedRejected ==
    (/\ call.fn = "plot_projection_with_strategies"
     /\ \E k \in 1..Len(call.scenarios_data) :
           call.scenarios_data[k][2] < call.scenarios_data[k][1])
    => /\ call.projection_dose_dict = <<>>
       /\ ~call.simulated
       /\ ~call.returned.success

(***************************************************************************)
(* Properties of the tapering schedule, checked under SpecTaper.            *)
(***************************************************************************)
\* the schedule of a single starting dose has been returned
TaperReturned ==
    /\ call.step = "done"
    /\ call.dose_schedule.kind = "num"

\* the fixed step r * d, in hundredths of a percent
TaperStep == call.taper_rate * call.dose_schedule.dose

\* C15: the tapering schedule of a single starting dose d gives every month
\* of 0..months a dose, never increases from a month to the next, lowers
\* each successive interval's dose by r * d until zero, ends each interval
\* where the next starts, and stays zero once it is zero.
C15_TaperingSchedule ==
    TaperReturned =>
       /\ DOMAIN call.schedule = 0..call.months
       /\ \A month \in 0..(call.months - 1) :
             call.schedule[month + 1] <= call.schedule[month]
       /\ call.intervals[1][3] = 100 * call.dose_schedule.dose
       /\ \A k \in 1..(Len(call.intervals) - 1) :
             /\ call.intervals[k][2] = call.intervals[k + 1][1]
             /\ call.intervals[k + 1][3]
                   = (IF call.intervals[k][3] > TaperStep
                      THEN call.intervals[k][3] - TaperStep ELSE 0)
       /\ call.intervals[Len(call.intervals)][3] = 0
       /\ \A month \in 0..call.months :
             call.schedule[month] = 0 =>
                \A later \in month..call.months : call.schedule[later] = 0

\* a schedule that starts at the full dose, steps down and reaches zero
\* before its last month
C15_Witness ==
    /\ TaperReturned
    /\ call.dose_schedule.dose = 100
    /\ call.taper_rate = 25
    /\ call.schedule[0] = 10000
    /\ \E month \in 1..(call.months - 1) :
          /\ call.schedule[month] = 5000
          /\ call.schedule[call.months - 1] = 0

(***************************************************************************)
(* Properties of the generation loop and of cancellation, checked under     *)
(* Spec.                                                                    *)
(***************************************************************************)
\* the step leaves the head of the generation loop without entering a body
LeavesGenerationLoop == pc = "gen" /\ pc' \notin {"gen", "body"}

\* C21 (as claimed): a generation starts only at a loop head that saw the
\* flag set and generations left; a generation that started appends exactly
\* one entry whatever the flag; the loop is left by returning the history,
\* one entry per evaluated generation, all of them if the flag was set
\* (population large enough for the tournament).
C21_HistoryPerGeneration ==
    [][pop_size >= TournamentSize =>
          /\ (pc = "gen" /\ pc' = "body") => (is_running /\ gen < generations)
          /\ (pc = "body" /\ pc' # "body") =>
                /\ pc' = "gen"
                /\ gen' = gen + 1
                /\ Len(best_history') = gen'
                /\ SubSeq(best_history', 1, gen) = best_history
          /\ LeavesGenerationLoop =>
                /\ pc' = "record"
                /\ Len(best_history) = gen
                /\ is_running => gen = generations]_vars

\* the fitness list of the population about to be evaluated
Fitnesses == [i \in 1..Len(population) |-> Fitness(population[i], clinical_data)]

\* the children bred from the current population, before elitism
Children ==
    Reproduce(selection(population, Fitnesses, seed, rngPos),
              seed, rngPos + 3 * Len(population))

\* C22: the step that ends generation g leaves in slot 0 of the new
\* population that generation's best individual, gene for gene the member of
\* the evaluated population and the entry just recorded; if g >= 1, slot 1
\* holds the individual recorded for g-1; in generation 0 slot 1 is the
\* second bred child; every other slot is the bred child.
C22_ElitismSlots ==
    [][(pc = "body" /\ pc' = "gen") =>
          LET children == Children
          IN /\ population'[1] = population[ArgMax(Fitnesses)]
             /\ population'[1] = best_history'[gen + 1].ind
             /\ gen >= 1 => population'[2] = best_history'[gen].ind
             /\ gen = 0 => population'[2] = children[2]
             /\ \A i \in 3..Len(population') :
                   population'[i] = children[i]]_vars

\* after the third generation the two elite slots hold different
\* individuals: the best of generation 2 and the best of generation 1
C22_Witness ==
    /\ pc = "gen"
    /\ gen = 3
    /\ population[1] = best_history[3].ind
    /\ population[2] = best_history[2].ind
    /\ population[1] # population[2]

\* the step emits the success payload
EmitsFinished == ~FinishedEmitted /\ FinishedEmitted'

\* C24 (as claimed): the success payload is emitted only in a state where
\* the flag is set, with exactly one result per configured restart, each
\* carrying the history of all its generations.
C24_SuccessOnlyWhileRunning ==
    [][EmitsFinished =>
          /\ is_running
          /\ is_running'
          /\ Len(results') = restarts
          /\ \A k \in 1..Len(results') :
                Len(results'[k].history) = generations]_vars

\* the number of progress notifications emitted so far
ProgressCount == Cardinality(Emitted("progress"))

\* C25 (as claimed): once the flag is cleared, the worker begins no further
\* generation and no further restart, appends nothing to the result set and
\* emits no progress notification other than the one of the generation in
\* progress.
C25_BoundedResponseToStop ==
    [][~is_running =>
          /\ ~(pc = "gen" /\ pc' = "body")
          /\ ~(pc = "restart" /\ pc' = "gen")
          /\ results' = results
          /\ ProgressCount' # ProgressCount =>
                (pc = "body" /\ ProgressCount' = ProgressCount + 1)]_vars

\* a terminal payload: the success payload or the failure payload
Terminal == Emitted("finished") \cup Emitted("error")

\* C26: at most one terminal payload is emitted in a run (so never both the
\* success and the failure payload), it is the last signal of the run, and
\* the run has ended when it is emitted.
C26_OneTerminalPayload ==
    /\ Cardinality(Terminal) <= 1
    /\ \A i \in Terminal : i = Len(emitted) /\ pc = "done"

\* a run that reported progress and then failed
C26_Witness ==
    /\ pc = "done"
    /\ ErrorEmitted
    /\ CallbackProgress # {}
    /\ emitted[Len(emitted)].sig = "error"

\* C27: every recorded restart returns the individual of its last history
\* entry, the fitness of that entry is the maximum of the fitness values of
\* the history, and the fitness the controller recomputes for the returned
\* individual equals it.
C27_ReturnedIsBestOfRestart ==
    \A k \in 1..Len(results) :
       LET history == results[k].history
           last    == history[Len(history)]
       IN /\ results[k].best = last.ind
          /\ \A j \in 1..Len(history) : history[j].fit <= last.fit
          /\ results[k].fit = last.fit

\* a recorded restart whose best fitness improved after the first generation
C27_Witness ==
    \E k \in 1..Len(results) :
       /\ Len(results[k].history) >= 2
       /\ results[k].history[1].fit < results[k].fit

(***************************************************************************)
(* Termination of the worker, checked under SpecLive.                       *)
(***************************************************************************)
\* C29: every run reaches its end state, stopped or not; a run that ends
\* with the flag still set (stop() was never called) has emitted the success
\* payload and no failure payload if the population is at least as large as
\* the tournament, and the failure payload and no success payload otherwise.
C29_RunTerminates ==
    /\ <>(pc = "done")
    /\ [](pc = "done" /\ is_running =>
             IF pop_size >= TournamentSize
             THEN FinishedEmitted /\ ~ErrorEmitted
             ELSE ErrorEmitted /\ ~FinishedEmitted)

\* a run of several restarts and generations that was never stopped has
\* ended with the success payload
C29_Witness ==
    /\ pc = "done"
    /\ is_running
    /\ FinishedEmitted
    /\ restarts >= 2
    /\ generations >= 2
    /\ steps_done = restarts * generations

(***************************************************************************)
(* Properties of the simulator's dose lookup, checked under SpecDose.       *)
(***************************************************************************)
\* the breakpoints of the list whose time is at or before the time asked
AtOrBefore == {k \in 1..Len(call.time_dose_pairs) :
                  call.time_dose_pairs[k][1] <= call.t}

DistinctTimes ==
    \A j, k \in 1..Len(call.time_dose_pairs) :
       j # k => call.time_dose_pairs[j][1] # call.time_dose_pairs[k][1]

\* C23: for every breakpoint list, sorted or not, the dose active at a time
\* t is the dose of a breakpoint of latest time among those at or before t,
\* and the default 100 percent when t is before every breakpoint; when the
\* breakpoint times are distinct, the same breakpoints in another order give
\* the same dose.
C23_DoseStepFunction ==
    (call.step = "integrate" /\ call.asked) =>
       /\ IF AtOrBefore = {} THEN call.current_dose = 100
          ELSE \E k \in AtOrBefore :
                  /\ \A j \in AtOrBefore :
                        call.time_dose_pairs[j][1] <= call.time_dose_pairs[k][1]
                  /\ call.current_dose = call.time_dose_pairs[k][2]
       /\ DistinctTimes => call.current_dose_reordered = call.current_dose

\* a list given out of time order, asked at a time after a later-listed
\* earlier breakpoint and before an earlier-listed later one
C23_Witness ==
    /\ call.step = "integrate"
    /\ call.asked
    /\ Len(call.time_dose_pairs) = 3
    /\ DistinctTimes
    /\ call.time_dose_pairs[1][1] > call.time_dose_pairs[2][1]
    /\ call.time_dose_pairs[2][1] <= call.t
    /\ call.t < call.time_dose_pairs[1][1]
    /\ call.current_dose = call.time_dose_pairs[2][2]
    /\ call.current_dose = 50
    /\ call.reordered # call.time_dose_pairs

\* a request without scenarios, on stored parameters and non-empty data,
\* has built its dose dictionaries
NoScenarioSchedule ==
    /\ call.fn = "plot_projection_with_strategies"
    /\ call.step \in {"simulate", "done"}
    /\ call.params # None
    /\ call.clinical_data # <<>>
    /\ call.scenarios_data = <<>>

\* C30 (as claimed): without scenarios, every month from 0 through the last
\* clinical month has a dose in the schedule handed to the simulator, so
\* the breakpoint list is built and the simulator is called.
C30_ScheduleTotalWithoutScenarios ==
    NoScenarioSchedule =>
       /\ \A month \in 0..call.last_clinical_month :
             month \in DOMAIN call.full_dose_dict
       /\ call.step = "done" => call.simulated

(***************************************************************************)
(* Properties of the objects of a GA run, checked under SpecAlias.          *)
(***************************************************************************)
\* C28: the dict of every history entry still has the genes it had when the
\* entry was appended, after every selection, crossover, mutation and
\* elitism step that followed, and the entry itself is never replaced.
C28_HistoryEntriesUntouched ==
    /\ [](call.fn = "genetic_algorithm" =>
            \A k \in 1..Len(call.best_history) :
               call.heap[call.best_history[k].ref]
                  = call.best_history[k].recorded)
    /\ [][call.fn = "genetic_algorithm" =>
            SubSeq(call.best_history', 1, Len(call.best_history))
               = call.best_history]_vars

\* the population about to be bred from holds, in slot 1, the very dict of
\* the history's first entry, and that population has been evaluated and
\* selected from
C28_Witness ==
    /\ call.fn = "genetic_algorithm"
    /\ call.step = "breed"
    /\ call.gen = 2
    /\ call.population[2] = call.best_history[1].ref
    /\ call.population[1] # call.population[2]
    /\ call.heap[call.population[1]] # call.heap[call.population[2]]

=============================================================================
